---------------------------- MODULE Spec2Model ----------------------------
(***************************************************************************)
(* A model of the Ohio "Apples to Apples" rate scanner.                    *)
(*                                                                         *)
(*   src/apples_v2.py  the scan pass: field parsers, qualifies_v2,         *)
(*                     choose_lowest, choose_lowest_per_term, load_alerts, *)
(*                     record_alert_history and main's alert evaluation    *)
(*   src/app.py        the alert dashboard: parse_term_expression,         *)
(*                     create_alert, toggle_alert, delete_alert            *)
(*                                                                         *)
(* Conventions.  Python text is a sequence of one-character strings, so    *)
(* that strip, lower, replace, startswith and float() are computed and not *)
(* assumed.  Python's None is the empty tuple and a present value x is the *)
(* one-element tuple <<x>>.  A float parsed from decimal text is the       *)
(* normalised decimal fraction m / 10^k together with a count e of 1e-9    *)
(* steps added to it.  The body of send_email_alert (apples_v2.py:279-280) *)
(* is mis-indented in the source; a send is modelled by its outcome, sent  *)
(* or raised.                                                              *)
(***************************************************************************)
EXTENDS Integers, Sequences, FiniteSets, TLC

VARIABLES
    rows,            \* main: the offer list extract_rows returned
    qual,            \* qualifies_v2 of each row, once computed
    best,            \* main: choose_lowest(rows)
    best_per_term,   \* main: choose_lowest_per_term(rows)
    pc,              \* the handler or call that ran last
    expr,            \* the text handed to parse_term_expression
    parsed,          \* its result
    alerts,          \* the rows of the alerts table, in rowid order
    next_id,         \* the AUTOINCREMENT counter of the alerts table
    alert_history,   \* the rows of the alert_history table, in rowid order
    emails,          \* main: per-rule notification outcomes of the pass
    flash,           \* what the request just served flashed, "" otherwise
    request,         \* the form of the create_alert request just served
    evaluated,       \* main: the rules load_alerts returned to the pass
    scan_no,         \* number of scan passes so far; also the pass timestamp
    events,          \* main: the pass's history writes and email attempts, in order
    html,            \* the parsed page handed to extract_rows
    fetch            \* fetch_html: retries, attempts made, last_err, returned text

vars == <<rows, qual, best, best_per_term, pc, expr, parsed, alerts, next_id,
          alert_history, emails, flash, request, evaluated, scan_no, events,
          html, fetch>>

selVars   == <<rows, qual, best, best_per_term>>
termVars  == <<expr, parsed>>
alertVars == <<alerts, next_id, alert_history, emails, flash, request,
               evaluated, scan_no, events>>
pageVars  == <<html, fetch>>

-----------------------------------------------------------------------------
(* Python values *)

None == <<>>
Some(x) == <<x>>
IsNone(o) == o = <<>>
Val(o) == o[1]

-----------------------------------------------------------------------------
(* Text: sequences of one-character strings *)

UpperChars == <<"A","B","C","D","E","F","G","H","I","J","K","L","M",
                "N","O","P","Q","R","S","T","U","V","W","X","Y","Z">>
LowerChars == <<"a","b","c","d","e","f","g","h","i","j","k","l","m",
                "n","o","p","q","r","s","t","u","v","w","x","y","z">>

\* str.lower(), one character
LowerChar(c) ==
    IF \E i \in DOMAIN UpperChars : UpperChars[i] = c
    THEN LowerChars[CHOOSE i \in DOMAIN UpperChars : UpperChars[i] = c]
    ELSE c

\* str.lower()
Lower(s) == [i \in DOMAIN s |-> LowerChar(s[i])]

\* s[n:]
Drop(s, n) == IF n >= Len(s) THEN <<>> ELSE SubSeq(s, n + 1, Len(s))

\* s[:n]
Take(s, n) == IF n >= Len(s) THEN s ELSE SubSeq(s, 1, n)

\* str.startswith(p)
StartsWith(s, p) == Len(s) >= Len(p) /\ SubSeq(s, 1, Len(p)) = p

\* str.endswith(p)
EndsWith(s, p) ==
    Len(s) >= Len(p) /\ SubSeq(s, Len(s) - Len(p) + 1, Len(s)) = p

\* sub in s
Contains(s, sub) ==
    \E i \in 0..Len(s) : StartsWith(Drop(s, i), sub)

RECURSIVE LStrip(_, _)
\* str.lstrip(c) for a single character c (str.strip's left half with " ")
LStrip(s, c) ==
    IF s # <<>> /\ Head(s) = c THEN LStrip(Tail(s), c) ELSE s

RECURSIVE RStrip(_, _)
RStrip(s, c) ==
    IF s # <<>> /\ s[Len(s)] = c THEN RStrip(SubSeq(s, 1, Len(s) - 1), c) ELSE s

\* str.strip(): the model's only whitespace character is the space
Strip(s) == RStrip(LStrip(s, " "), " ")

RECURSIVE Replace(_, _, _)
\* str.replace(old, new): non-overlapping occurrences, left to right
Replace(s, old, new) ==
    IF Len(s) < Len(old) \/ old = <<>> THEN s
    ELSE IF StartsWith(s, old)
         THEN new \o Replace(Drop(s, Len(old)), old, new)
         ELSE <<Head(s)>> \o Replace(Tail(s), old, new)

\* index of the first occurrence of the character c in s, 0 if there is none
FirstIndex(s, c) ==
    IF \E i \in DOMAIN s : s[i] = c
    THEN CHOOSE i \in DOMAIN s : s[i] = c /\ \A j \in 1..(i - 1) : s[j] # c
    ELSE 0

-----------------------------------------------------------------------------
(* float(text) *)

Digits == <<"0","1","2","3","4","5","6","7","8","9">>
IsDigit(c) == \E i \in DOMAIN Digits : Digits[i] = c
DigitVal(c) == (CHOOSE i \in DOMAIN Digits : Digits[i] = c) - 1

RECURSIVE DigitsToInt(_)
DigitsToInt(s) ==
    IF s = <<>> THEN 0
    ELSE DigitsToInt(SubSeq(s, 1, Len(s) - 1)) * 10 + DigitVal(s[Len(s)])

RECURSIVE NormDec(_, _)
\* the decimal fraction m / 10^k without trailing zeros in its fraction
NormDec(m, k) ==
    IF k > 0 /\ m % 10 = 0 THEN NormDec(m \div 10, k - 1)
    ELSE [m |-> m, k |-> k, e |-> 0]

\* float(s) for text over digits, sign, point and spaces: None when Python
\* raises ValueError.  Exponents, "inf", "nan" and "_" lie outside the
\* alphabets the model draws text from.
ParseFloat(s0) ==
    LET s == Strip(s0)
        signed == s # <<>> /\ Head(s) \in {"+", "-"}
        neg == s # <<>> /\ Head(s) = "-"
        body == IF signed THEN Tail(s) ELSE s
        dot == FirstIndex(body, ".")
        ip == IF dot = 0 THEN body ELSE Take(body, dot - 1)
        fp == IF dot = 0 THEN <<>> ELSE Drop(body, dot)
        wellFormed ==
            /\ \A i \in DOMAIN ip : IsDigit(ip[i])
            /\ \A i \in DOMAIN fp : IsDigit(fp[i])
            /\ Len(ip) + Len(fp) > 0
        mag == NormDec(DigitsToInt(ip \o fp), Len(fp))
    IN  IF ~wellFormed THEN None
        ELSE Some([mag EXCEPT !.m = IF neg THEN 0 - mag.m ELSE mag.m])

\* x + 1e-9 and x - 1e-9 (app.py:137, 141)
AddEps(x, n) == [x EXCEPT !.e = x.e + n]

-----------------------------------------------------------------------------
(* app.py: parse_term_expression *)

\* a returned (min, max) pair, and the ValueError float() raises
Range(lo, hi) == [ok |-> TRUE, lo |-> lo, hi |-> hi]
Invalid == [ok |-> FALSE, lo |-> None, hi |-> None]

\* app.py:126-128
CleanTerm(e) ==
    LET a == Replace(e, <<"m","o","n","t","h","s">>, <<>>)
        b == Replace(a, <<"m","o","n","t","h">>, <<>>)
        c == Replace(b, <<"m","o","s">>, <<>>)
        d == Replace(c, <<"m","o">>, <<>>)
        f == Replace(d, <<"t","o">>, <<"-">>)
    IN  Replace(f, <<" ">>, <<>>)

\* app.py:130-141: the comparator forms
TermComparator(cleaned) ==
    LET op == IF Take(cleaned, 2) \in {<<">","=">>, <<"<","=">>}
              THEN Take(cleaned, 2) ELSE Take(cleaned, 1)
        val == ParseFloat(Drop(cleaned, Len(op)))
    IN  IF IsNone(val) THEN Invalid
        ELSE IF op = <<">","=">> THEN Range(val, None)
        ELSE IF op = <<">">> THEN Range(Some(AddEps(Val(val), 1)), None)
        ELSE IF op = <<"<","=">> THEN Range(None, val)
        ELSE Range(None, Some(AddEps(Val(val), 0 - 1)))

\* app.py:143-145
TermAtLeast(cleaned) ==
    LET val == ParseFloat(Take(cleaned, Len(cleaned) - 1))
    IN  IF IsNone(val) THEN Invalid ELSE Range(val, None)

\* app.py:147-149: cleaned.split("-", 1)
TermRange(cleaned) ==
    LET i == FirstIndex(cleaned, "-")
        lo == ParseFloat(Take(cleaned, i - 1))
        hi == ParseFloat(Drop(cleaned, i))
    IN  IF IsNone(lo) \/ IsNone(hi) THEN Invalid ELSE Range(lo, hi)

\* app.py:151-153
TermEquals(cleaned) ==
    LET val == ParseFloat(LStrip(cleaned, "="))
    IN  IF IsNone(val) THEN Invalid ELSE Range(val, val)

\* app.py:155-157
TermExact(cleaned) ==
    LET val == ParseFloat(Replace(Replace(cleaned,
                   <<"e","x","a","c","t","l","y">>, <<>>),
                   <<"e","x","a","c","t">>, <<>>))
    IN  IF IsNone(val) THEN Invalid ELSE Range(val, val)

\* app.py:159-160
TermSingle(cleaned) ==
    LET val == ParseFloat(cleaned)
    IN  IF IsNone(val) THEN Invalid ELSE Range(val, val)

\* app.py:121-160
parse_term_expression(e0) ==
    LET e == Lower(Strip(e0))
        cleaned == CleanTerm(e)
    IN  IF e = <<>> THEN Range(None, None)
        ELSE IF \/ StartsWith(cleaned, <<">","=">>) \/ StartsWith(cleaned, <<"<","=">>)
                \/ StartsWith(cleaned, <<">">>) \/ StartsWith(cleaned, <<"<">>)
             THEN TermComparator(cleaned)
        ELSE IF EndsWith(cleaned, <<"+">>) THEN TermAtLeast(cleaned)
        ELSE IF Contains(cleaned, <<"-">>) THEN TermRange(cleaned)
        ELSE IF StartsWith(cleaned, <<"=">>) \/ StartsWith(cleaned, <<"=","=">>)
             THEN TermEquals(cleaned)
        ELSE IF Contains(e, <<"e","x","a","c","t">>) THEN TermExact(cleaned)
        ELSE TermSingle(cleaned)

-----------------------------------------------------------------------------
(* Numbers and text as Python orders them *)

RECURSIVE Pow10(_)
Pow10(n) == IF n = 0 THEN 1 ELSE 10 * Pow10(n - 1)

\* a < b on floats parsed from decimal text
DecLt(a, b) ==
    LET x == a.m * Pow10(b.k)
        y == b.m * Pow10(a.k)
    IN  x < y \/ (x = y /\ a.e < b.e)

\* a == 0.0
DecIsZero(a) == a.m = 0 /\ a.e = 0

\* the code point order of the characters supplier names are written in
CharOrder == UpperChars \o LowerChars
CodePoint(c) == CHOOSE i \in DOMAIN CharOrder : CharOrder[i] = c

RECURSIVE StrLt(_, _)
\* a < b on str
StrLt(a, b) ==
    IF b = <<>> THEN FALSE
    ELSE IF a = <<>> THEN TRUE
    ELSE IF Head(a) # Head(b) THEN CodePoint(Head(a)) < CodePoint(Head(b))
    ELSE StrLt(Tail(a), Tail(b))

RECURSIVE SortedInts(_)
\* sorted(S) for a finite set of integers
SortedInts(S) ==
    IF S = {} THEN <<>>
    ELSE LET least == CHOOSE x \in S : \A y \in S : x <= y
         IN  <<least>> \o SortedInts(S \ {least})

-----------------------------------------------------------------------------
(* apples_v2.py: the field parsers *)

RECURSIVE CollapseSpaces(_)
\* re.sub(r"\s+", " ", t): the model's only whitespace is the space
CollapseSpaces(t) ==
    IF Len(t) < 2 THEN t
    ELSE IF t[1] = " " /\ t[2] = " " THEN CollapseSpaces(Tail(t))
    ELSE <<Head(t)>> \o CollapseSpaces(Tail(t))

\* apples_v2.py:67-86: the pairs of the mapping
HeaderMapping ==
    << 
       <<<<"c", "l", "i", "c", "k", " ", "t", "o", " ", "c", "o", "m", "p", "a", "r", "e">>,
         <<"c", "o", "m", "p", "a", "r", "e">>>>,
       <<<<"c", "o", "m", "p", "a", "r", "e">>,
         <<"c", "o", "m", "p", "a", "r", "e">>>>,
       <<<<"s", "u", "p", "p", "l", "i", "e", "r">>,
         <<"s", "u", "p", "p", "l", "i", "e", "r">>>>,
       <<<<"c", "o", "m", "p", "a", "n", "y">>,
         <<"s", "u", "p", "p", "l", "i", "e", "r">>>>,
       <<<<"$", "/", "k", "w", "h">>,
         <<"p", "r", "i", "c", "e">>>>,
       <<<<"p", "r", "i", "c", "e">>,
         <<"p", "r", "i", "c", "e">>>>,
       <<<<"r", "a", "t", "e", " ", "t", "y", "p", "e">>,
         <<"r", "a", "t", "e", "_", "t", "y", "p", "e">>>>,
       <<<<"r", "e", "n", "e", "w", ".", " ", "c", "o", "n", "t", "e", "n", "t">>,
         <<"r", "e", "n", "e", "w", "a", "b", "l", "e">>>>,
       <<<<"r", "e", "n", "e", "w", "a", "b", "l", "e", " ", "c", "o", "n", "t", "e", "n", "t">>,
         <<"r", "e", "n", "e", "w", "a", "b", "l", "e">>>>,
       <<<<"i", "n", "t", "r", "o", ".", " ", "p", "r", "i", "c", "e">>,
         <<"i", "n", "t", "r", "o", "_", "p", "r", "i", "c", "e">>>>,
       <<<<"i", "n", "t", "r", "o", " ", "p", "r", "i", "c", "e">>,
         <<"i", "n", "t", "r", "o", "_", "p", "r", "i", "c", "e">>>>,
       <<<<"t", "e", "r", "m", ".", " ", "l", "e", "n", "g", "t", "h">>,
         <<"t", "e", "r", "m">>>>,
       <<<<"t", "e", "r", "m", " ", "l", "e", "n", "g", "t", "h">>,
         <<"t", "e", "r", "m">>>>,
       <<<<"e", "a", "r", "l", "y", " ", "t", "e", "r", "m", ".", " ", "f", "e", "e">>,
         <<"e", "t", "f">>>>,
       <<<<"e", "a", "r", "l", "y", " ", "t", "e", "r", "m", "i", "n", "a", "t", "i", "o", "n", " ", "f", "e", "e">>,
         <<"e", "t", "f">>>>,
       <<<<"m", "o", "n", "t", "h", "l", "y", " ", "f", "e", "e">>,
         <<"m", "o", "n", "t", "h", "l", "y", "_", "f", "e", "e">>>>,
       <<<<"p", "r", "o", "m", "o", ".", " ", "o", "f", "f", "e", "r", "s">>,
         <<"p", "r", "o", "m", "o">>>>,
       <<<<"p", "r", "o", "m", "o", " ", "o", "f", "f", "e", "r", "s">>,
         <<"p", "r", "o", "m", "o">>>> >>

\* apples_v2.py:65-87
norm_header(txt) ==
    LET t == CollapseSpaces(Lower(Strip(txt)))
    IN  IF \E i \in DOMAIN HeaderMapping : HeaderMapping[i][1] = t
        THEN HeaderMapping[CHOOSE i \in DOMAIN HeaderMapping : HeaderMapping[i][1] = t][2]
        ELSE t

\* the end of the run of digits of s that begins at position i
RECURSIVE DigitsEnd(_, _)
DigitsEnd(s, i) ==
    IF i < Len(s) /\ IsDigit(s[i + 1]) THEN DigitsEnd(s, i + 1) ELSE i

\* re.search(r"(\d+(?:\.\d+)?)", s): the leftmost match, None without one;
\* with signed, the pattern r"(-?\d+(?:\.\d+)?)"
FirstNumber(s, signed) ==
    IF \A i \in DOMAIN s : ~IsDigit(s[i]) THEN None
    ELSE LET d == CHOOSE i \in DOMAIN s :
                      IsDigit(s[i]) /\ \A j \in 1..(i - 1) : ~IsDigit(s[j])
             e == DigitsEnd(s, d)
             f == IF e + 1 < Len(s) /\ s[e + 1] = "." /\ IsDigit(s[e + 2])
                  THEN DigitsEnd(s, e + 2) ELSE e
             b == IF signed /\ d > 1 /\ s[d - 1] = "-" THEN d - 1 ELSE d
         IN  Some(SubSeq(s, b, f))

\* apples_v2.py:89-93
parse_dollars_per_kwh(s) ==
    IF s = <<>> THEN None
    ELSE LET m == FirstNumber(Replace(s, <<",">>, <<>>), FALSE)
         IN  IF IsNone(m) THEN None ELSE ParseFloat(Val(m))

\* apples_v2.py:95-99: int() of the first run of digits
parse_term_months(s) ==
    IF s = <<>> \/ \A i \in DOMAIN s : ~IsDigit(s[i]) THEN None
    ELSE LET d == CHOOSE i \in DOMAIN s :
                      IsDigit(s[i]) /\ \A j \in 1..(i - 1) : ~IsDigit(s[j])
         IN  Some(DigitsToInt(SubSeq(s, d, DigitsEnd(s, d))))

\* the em dash U+2014 of line 109, written "~": no other text of the model
\* holds this character
EmDash == "~"

\* apples_v2.py:109
FeePlaceholders ==
    { <<EmDash>>,
      <<"-">>,
      <<"n", "/", "a">>,
      <<"n", "a">>,
      <<"n", "o", "n", "e">>,
      <<"n", "o">>,
      <<"n", "o", "t", " ", "a", "p", "p", "l", "i", "c", "a", "b", "l", "e">> }

\* parse_money_to_float without the placeholder set and taking "no digits"
\* for a fee of 0
parse_money_to_float_ZeroDefault(s0) ==
    LET m == FirstNumber(Replace(Strip(s0), <<",">>, <<>>), TRUE)
    IN  IF IsNone(m) THEN Some([m |-> 0, k |-> 0, e |-> 0]) ELSE ParseFloat(Val(m))

\* apples_v2.py:101-112
parse_money_to_float(s0) ==
    IF s0 = <<>> THEN None
    ELSE LET s == Strip(s0)
         IN  IF s \in FeePlaceholders THEN None
             ELSE LET m == FirstNumber(Replace(s, <<",">>, <<>>), TRUE)
                  IN  IF IsNone(m) THEN None ELSE ParseFloat(Val(m))

-----------------------------------------------------------------------------
(* apples_v2.py: qualifies_v2, choose_lowest, choose_lowest_per_term *)

\* qualifies_v2 without the .lower() of line 189
qualifies_v2_CaseSensitive(row) ==
    IF StartsWith(row.rate_type, <<"v","a","r","i","a","b","l","e">>) THEN FALSE
    ELSE /\ ~IsNone(row.etf_amount) /\ DecIsZero(Val(row.etf_amount))
         /\ ~IsNone(row.monthly_fee_amount) /\ DecIsZero(Val(row.monthly_fee_amount))

\* apples_v2.py:185-195
qualifies_v2(row) ==
    LET rate == Lower(row.rate_type)
        etf_amt == row.etf_amount
        monthly_amt == row.monthly_fee_amount
    IN  IF StartsWith(rate, <<"v","a","r","i","a","b","l","e">>) THEN FALSE
        ELSE /\ ~IsNone(etf_amt) /\ DecIsZero(Val(etf_amt))
             /\ ~IsNone(monthly_amt) /\ DecIsZero(Val(monthly_amt))

RECURSIVE Filtered(_)
\* apples_v2.py:198 and 205: the rows with a price that qualify, in order
Filtered(rs) ==
    IF rs = <<>> THEN <<>>
    ELSE IF ~IsNone(Head(rs).price_dollars_per_kwh) /\ qualifies_v2(Head(rs))
         THEN <<Head(rs)>> \o Filtered(Tail(rs))
         ELSE Filtered(Tail(rs))

\* apples_v2.py:202: -(r["term_months"] or -1)
NegTermKey(r) ==
    LET t == r.term_months
    IN  0 - (IF IsNone(t) \/ Val(t) = 0 THEN 0 - 1 ELSE Val(t))

\* apples_v2.py:202: the tuple order of (price, -(term or -1))
OverallKeyLt(a, b) ==
    LET pa == Val(a.price_dollars_per_kwh)
        pb == Val(b.price_dollars_per_kwh)
    IN  \/ DecLt(pa, pb)
        \/ (~DecLt(pb, pa) /\ NegTermKey(a) < NegTermKey(b))

\* choose_lowest without the qualifies_v2 filter of line 198
choose_lowest_Unfiltered(rs) ==
    LET least == CHOOSE i \in DOMAIN rs :
                    /\ \A j \in DOMAIN rs : ~OverallKeyLt(rs[j], rs[i])
                    /\ \A j \in 1..(i - 1) : OverallKeyLt(rs[i], rs[j])
    IN  IF rs = <<>> THEN None ELSE Some(rs[least])

\* apples_v2.py:197-202: min() returns the first of the least elements
choose_lowest(rs) ==
    LET filtered == Filtered(rs)
        least == CHOOSE i \in DOMAIN filtered :
                    /\ \A j \in DOMAIN filtered : ~OverallKeyLt(filtered[j], filtered[i])
                    /\ \A j \in 1..(i - 1) : OverallKeyLt(filtered[i], filtered[j])
    IN  IF filtered = <<>> THEN None ELSE Some(filtered[least])

\* the comparison of lines 215-218 on the price alone
PerTermKeyLt_PriceOnly(a, b) ==
    DecLt(Val(a.price_dollars_per_kwh), Val(b.price_dollars_per_kwh))

\* apples_v2.py:215-218: the tuple order of (price, supplier)
PerTermKeyLt(a, b) ==
    LET pa == Val(a.price_dollars_per_kwh)
        pb == Val(b.price_dollars_per_kwh)
    IN  \/ DecLt(pa, pb)
        \/ (~DecLt(pb, pa) /\ StrLt(a.supplier, b.supplier))

RECURSIVE ByTerm(_, _)
\* apples_v2.py:206-219: the loop over filtered, by_term a function from the
\* terms seen so far to their best row
ByTerm(filtered, by_term) ==
    IF filtered = <<>> THEN by_term
    ELSE LET row == Head(filtered)
             term == row.term_months
             rest == Tail(filtered)
         IN  IF IsNone(term) THEN ByTerm(rest, by_term)
             ELSE IF Val(term) \notin DOMAIN by_term
                  THEN ByTerm(rest, [t \in DOMAIN by_term \cup {Val(term)} |->
                                        IF t = Val(term) THEN row ELSE by_term[t]])
             ELSE IF PerTermKeyLt(row, by_term[Val(term)])
                  THEN ByTerm(rest, [by_term EXCEPT ![Val(term)] = row])
             ELSE ByTerm(rest, by_term)

\* choose_lowest_per_term without the qualifies_v2 filter of line 205
choose_lowest_per_term_Unfiltered(rs) ==
    LET by_term == ByTerm(rs, <<>>)
        order == SortedInts(DOMAIN by_term)
    IN  [i \in DOMAIN order |-> by_term[order[i]]]

\* apples_v2.py:204-220
choose_lowest_per_term(rs) ==
    LET by_term == ByTerm(Filtered(rs), <<>>)
        order == SortedInts(DOMAIN by_term)
    IN  [i \in DOMAIN order |-> by_term[order[i]]]

-----------------------------------------------------------------------------
(* The selection driver: an offer list in, main's two selections out *)

MaxRows == 3

Dec(m, k) == [m |-> m, k |-> k, e |-> 0]

Offer(supplier, price, rate, term, etf, monthly) ==
    [supplier |-> supplier, price_dollars_per_kwh |-> price, rate_type |-> rate,
     term_months |-> term, etf_amount |-> etf, monthly_fee_amount |-> monthly]

FixedText == <<"F","i","x","e","d">>
VariableText == <<"V","a","r","i","a","b","l","e">>

\* a qualifying offer: fixed rate, both fees parsed as 0
Fixed0(supplier, price, term) ==
    Offer(supplier, Some(price), FixedText, term, Some(Dec(0, 0)), Some(Dec(0, 0)))

\* Offers as extract_rows leaves them: a supplier and a price are always
\* present (apples_v2.py:155), a term is a whole number of months or absent.
\* Qualifying offers of two suppliers at $0.065 and $0.06 with terms absent,
\* 0, 12 and 24, and three cheaper offers that a variable rate, an unparsed
\* fee or a monthly fee rules out.
SelectOffers ==
    { Fixed0(<<"A">>, Dec(65, 3), t) : t \in {None, Some(0), Some(12), Some(24)} }
    \cup { Fixed0(<<"B">>, Dec(65, 3), t) : t \in {None, Some(12)} }
    \cup { Fixed0(<<"A">>, Dec(6, 2), t) : t \in {Some(12), Some(24)} }
    \cup { Fixed0(<<"B">>, Dec(6, 2), Some(12)) }
    \cup { Offer(<<"A">>, Some(Dec(5, 2)), VariableText, Some(12), Some(Dec(0, 0)), Some(Dec(0, 0))),
           Offer(<<"A">>, Some(Dec(5, 2)), FixedText, Some(36), None, Some(Dec(0, 0))),
           Offer(<<"B">>, Some(Dec(5, 2)), FixedText, Some(24), Some(Dec(0, 0)), Some(Dec(495, 2))) }

RECURSIVE SeqsUpTo(_, _)
\* the sequences over S of length at most n
SeqsUpTo(S, n) ==
    IF n = 0 THEN { <<>> }
    ELSE LET shorter == SeqsUpTo(S, n - 1)
         IN  shorter \cup { Append(s, x) : s \in shorter, x \in S }

\* rate_type texts and fee amounts for a single offer: every pairing of a
\* rate type with the two parsed fees
RateTexts ==
    { <<>>, FixedText, VariableText,
      <<"V","A","R","I","A","B","L","E">>, <<"v","a","r","i","a","b","l","e">>,
      <<"v","A","r","i","a","b","l","e"," ","r","a","t","e">>,
      <<"V","a","r">>, <<"F","i","x","e","d","/","V","a","r","i","a","b","l","e">> }

FeeAmounts ==
    { None, Some(Dec(0, 0)), Some(Dec(25, 0)), Some(Dec(1, 2)), Some(Dec(0 - 5, 0)) }

QualifyOffers ==
    { Offer(<<"A">>, Some(Dec(65, 3)), r, Some(12), e, m) :
        r \in RateTexts, e \in FeeAmounts, m \in FeeAmounts }

NoSelection ==
    /\ rows = <<>> /\ qual = <<>> /\ best = None /\ best_per_term = <<>>

NoAlerts ==
    /\ alerts = <<>> /\ next_id = 1 /\ alert_history = <<>> /\ emails = <<>>
    /\ flash = "" /\ request = <<>> /\ evaluated = <<>> /\ scan_no = 0
    /\ events = <<>>

NoTerm == expr = <<>> /\ parsed = None

NoPage == html = <<>> /\ fetch = <<>>

InitSelect ==
    /\ rows \in SeqsUpTo(SelectOffers, MaxRows)
    /\ qual = <<>> /\ best = None /\ best_per_term = <<>>
    /\ pc = "input"
    /\ NoTerm
    /\ NoPage
    /\ NoAlerts

InitQualify ==
    /\ rows \in { <<o>> : o \in QualifyOffers }
    /\ qual = <<>> /\ best = None /\ best_per_term = <<>>
    /\ pc = "input"
    /\ NoTerm
    /\ NoPage
    /\ NoAlerts

\* apples_v2.py:374-375, with qualifies_v2 of every row
Select ==
    /\ pc = "input"
    /\ qual' = [i \in DOMAIN rows |-> qualifies_v2(rows[i])]
    /\ best' = choose_lowest(rows)
    /\ best_per_term' = choose_lowest_per_term(rows)
    /\ pc' = "selected"
    /\ UNCHANGED <<rows, termVars, alertVars, pageVars>>

NextSelect == Select

SpecSelect == InitSelect /\ [][NextSelect]_vars

SpecQualify == InitQualify /\ [][NextSelect]_vars

-----------------------------------------------------------------------------
(* Claims about qualification and selection *)

VariableLower == <<"v","a","r","i","a","b","l","e">>
VariableUpper == <<"V","A","R","I","A","B","L","E">>

\* the text begins with "variable", in any mix of cases
BeginsVariable(t) ==
    /\ Len(t) >= Len(VariableLower)
    /\ \A i \in DOMAIN VariableLower : t[i] \in {VariableLower[i], VariableUpper[i]}

\* the parsed amount is present and exactly 0
ExactZero(a) == a # None /\ Val(a) = Dec(0, 0)

\* a qualifying offer, as the specification's section 4.4 defines it
Qualifying(o) ==
    /\ ~BeginsVariable(o.rate_type)
    /\ ExactZero(o.etf_amount)
    /\ ExactZero(o.monthly_fee_amount)

HasPrice(o) == o.price_dollars_per_kwh # None
PriceOf(o) == Val(o.price_dollars_per_kwh)

\* C1: qualifies_v2 is true of an offer exactly when its rate type does not
\* begin with "variable" (in any case) and both parsed fee amounts are
\* present and exactly 0.
C1_QualifiesIff ==
    pc = "selected" =>
        \A i \in DOMAIN rows : qual[i] <=> Qualifying(rows[i])

\* C1 witness: an upper-case variable-rate offer with both fees zero was
\* judged, and rejected.
C1_Witness ==
    /\ pc = "selected"
    /\ rows # <<>>
    /\ rows[1].rate_type = VariableUpper
    /\ ExactZero(rows[1].etf_amount) /\ ExactZero(rows[1].monthly_fee_amount)
    /\ qual = <<FALSE>>

\* C2: choose_lowest never returns a non-qualifying offer, returns none
\* exactly when no qualifying offer of the list has a price, and no
\* qualifying offer of the list is strictly cheaper than the one returned.
C2_LowestQualifying ==
    pc = "selected" =>
        /\ (best = None) <=>
               ~\E i \in DOMAIN rows : Qualifying(rows[i]) /\ HasPrice(rows[i])
        /\ best # None =>
               /\ \E i \in DOMAIN rows : rows[i] = Val(best)
               /\ Qualifying(Val(best))
               /\ \A i \in DOMAIN rows :
                      Qualifying(rows[i]) /\ HasPrice(rows[i])
                          => ~DecLt(PriceOf(rows[i]), PriceOf(Val(best)))

\* C2 witness: an offer was returned although a cheaper, non-qualifying
\* offer stood before it in the list.
C2_Witness ==
    /\ pc = "selected"
    /\ best # None
    /\ Len(rows) >= 2
    /\ ~Qualifying(rows[1])
    /\ DecLt(PriceOf(rows[1]), PriceOf(Val(best)))

\* the rank of a term in the tie-break: absent below every value the term
\* parser produces (whole numbers from 0 up)
TermRank(t) == IF t = None THEN 0 - 1 ELSE Val(t)

\* C3: among the qualifying offers at the price of the returned offer, the
\* returned offer has the largest term, an absent term ranking below every
\* present one.
C3_LongestTermWins ==
    pc = "selected" /\ best # None =>
        \A i \in DOMAIN rows :
            /\ Qualifying(rows[i]) /\ HasPrice(rows[i])
            /\ PriceOf(rows[i]) = PriceOf(Val(best))
            => TermRank(rows[i].term_months) <= TermRank(Val(best).term_months)

\* the terms present among the qualifying offers that have a term
QualifyingTerms(rs) ==
    { Val(rs[i].term_months) :
        i \in { j \in DOMAIN rs : Qualifying(rs[j]) /\ rs[j].term_months # None } }

\* (term, price, supplier) of each reported offer
Reported(sel) ==
    [j \in DOMAIN sel |->
        <<sel[j].term_months, sel[j].price_dollars_per_kwh, sel[j].supplier>>]

\* a is before b by (price ascending, supplier ascending)
BeforeInGroup(a, b) ==
    \/ DecLt(PriceOf(a), PriceOf(b))
    \/ PriceOf(a) = PriceOf(b) /\ StrLt(a.supplier, b.supplier)

\* C4: choose_lowest_per_term reports one offer for each term present among
\* the qualifying offers that have a term and none else; each is a
\* qualifying offer of the list and the minimum of its term group by
\* (price, supplier); the terms are strictly ascending; and every
\* rearrangement of the list reports the same terms, prices and suppliers.
C4_OnePerTerm ==
    pc = "selected" =>
        /\ \A j \in DOMAIN best_per_term :
               /\ \E i \in DOMAIN rows : rows[i] = best_per_term[j]
               /\ Qualifying(best_per_term[j])
               /\ best_per_term[j].term_months # None
               /\ \A i \in DOMAIN rows :
                      /\ Qualifying(rows[i])
                      /\ rows[i].term_months = best_per_term[j].term_months
                      => ~BeforeInGroup(rows[i], best_per_term[j])
        /\ { Val(best_per_term[j].term_months) : j \in DOMAIN best_per_term }
               = QualifyingTerms(rows)
        /\ \A j, k \in DOMAIN best_per_term :
               j < k => Val(best_per_term[j].term_months)
                            < Val(best_per_term[k].term_months)
        /\ \A f \in Permutations(DOMAIN rows) :
               Reported(choose_lowest_per_term([i \in DOMAIN rows |-> rows[f[i]]]))
                   = Reported(best_per_term)

\* C4 witness: one term was reported, for a group of two equally priced
\* offers that stood in the list in descending supplier order, and a
\* qualifying offer without a term was left out.
C4_Witness ==
    /\ pc = "selected"
    /\ Len(rows) = 3
    /\ Len(best_per_term) = 1
    /\ Qualifying(rows[1]) /\ Qualifying(rows[2]) /\ Qualifying(rows[3])
    /\ rows[1].term_months = rows[2].term_months
    /\ rows[1].price_dollars_per_kwh = rows[2].price_dollars_per_kwh
    /\ StrLt(rows[2].supplier, rows[1].supplier)
    /\ rows[3].term_months = None
    /\ best_per_term[1] = rows[2]

-----------------------------------------------------------------------------
(* The term-expression driver: one text in, one parse *)

MaxTokens == 3

\* the pieces texts are built from: numbers, the shorthand symbols, the unit
\* words and the two "exact" words
TermTokens ==
    { <<"3">>, <<"6">>, <<"1","2">>, <<"2","4">>, <<".">>,
      <<"+">>, <<"-">>, <<">","=">>, <<"<","=">>, <<">">>, <<"<">>,
      <<"=">>, <<"=","=">>, <<" ">>,
      <<"t","o">>, <<"m","o">>, <<"M","o","n","t","h","s">>,
      <<"e","x","a","c","t">>, <<"e","x","a","c","t","l","y">> }

RECURSIVE TokenTexts(_)
\* every concatenation of at most n tokens
TokenTexts(n) ==
    IF n = 0 THEN { <<>> }
    ELSE LET shorter == TokenTexts(n - 1)
         IN  shorter \cup { s \o t : s \in shorter, t \in TermTokens }

TermTexts == TokenTexts(MaxTokens)

InitTerm ==
    /\ expr \in TermTexts
    /\ parsed = None
    /\ pc = "input"
    /\ NoSelection
    /\ NoAlerts
    /\ NoPage

\* a call parse_term_expression(expr)
ParseTerm ==
    /\ pc = "input"
    /\ parsed' = Some(parse_term_expression(expr))
    /\ pc' = "parsed"
    /\ UNCHANGED <<expr, selVars, alertVars, pageVars>>

NextTerm == ParseTerm

SpecTerm == InitTerm /\ [][NextTerm]_vars

-----------------------------------------------------------------------------
(* app.py: the dashboard's requests on the alerts table *)

\* app.py:165-168: (request.form.get(field) or "").strip()
FormText(form) ==
    [name |-> Strip(form.name), threshold_raw |-> Strip(form.threshold),
     email_to |-> Strip(form.email_to), term_expr |-> Strip(form.term_expr)]

\* create_alert storing the qualifier without the check of lines 181-186
TermExprAccepted_Unchecked(term_expr) == TRUE

\* app.py:181-186: a non-empty qualifier must parse
TermExprAccepted(term_expr) ==
    term_expr = <<>> \/ parse_term_expression(term_expr).ok

\* app.py:171-186: the flash message of a refused form, "" for an accepted one
CreateRefusal(form) ==
    LET f == FormText(form)
    IN  IF f.name = <<>> \/ f.threshold_raw = <<>> \/ f.email_to = <<>>
        THEN "required"
        ELSE IF IsNone(ParseFloat(f.threshold_raw)) THEN "threshold"
        ELSE IF ~TermExprAccepted(f.term_expr) THEN "term"
        ELSE ""

\* app.py:188-196: the inserted row (created_at, a timestamp no request
\* reads back, is left out)
NewAlert(form, id) ==
    LET f == FormText(form)
    IN  [id |-> id, name |-> f.name, threshold |-> Val(ParseFloat(f.threshold_raw)),
         email_to |-> f.email_to,
         term_expr |-> IF f.term_expr = <<>> THEN None ELSE Some(f.term_expr),
         active |-> IF form.active = <<"o","n">> THEN 1 ELSE 0]

MaxAlerts == 2

\* rows, qual, best, best_per_term, evaluated and emails are the locals of a
\* scanner process, which has exited when a request is served: a request
\* starts with none of them
NoPass ==
    /\ rows' = <<>>
    /\ qual' = <<>>
    /\ best' = None
    /\ best_per_term' = <<>>
    /\ evaluated' = <<>>
    /\ emails' = <<>>
    /\ events' = <<>>

\* app.py:163-199
create_alert(form) ==
    /\ next_id <= MaxAlerts
    /\ request' = form
    /\ pc' = "create"
    /\ \E refusal \in {CreateRefusal(form)} :
           IF refusal # ""
           THEN /\ flash' = refusal
                /\ UNCHANGED <<alerts, next_id>>
           ELSE /\ alerts' = Append(alerts, NewAlert(form, next_id))
                /\ next_id' = next_id + 1
                /\ flash' = "created"
    /\ NoPass
    /\ UNCHANGED <<alert_history, scan_no, termVars, pageVars>>

\* app.py:233-245
toggle_alert(alert_id) ==
    /\ pc' = "toggle"
    /\ IF \E i \in DOMAIN alerts : alerts[i].id = alert_id
       THEN /\ alerts' = [i \in DOMAIN alerts |->
                            IF alerts[i].id = alert_id
                            THEN [alerts[i] EXCEPT !.active =
                                     IF alerts[i].active # 0 THEN 0 ELSE 1]
                            ELSE alerts[i]]
            /\ flash' = "updated"
       ELSE /\ flash' = "not_found"
            /\ UNCHANGED alerts
    /\ request' = <<>>
    /\ NoPass
    /\ UNCHANGED <<next_id, alert_history, scan_no, termVars, pageVars>>

RECURSIVE WithoutAlert(_, _)
\* DELETE FROM alerts WHERE id = ?
WithoutAlert(table, alert_id) ==
    IF table = <<>> THEN <<>>
    ELSE IF Head(table).id = alert_id THEN WithoutAlert(Tail(table), alert_id)
    ELSE <<Head(table)>> \o WithoutAlert(Tail(table), alert_id)

RECURSIVE WithoutHistoryOf(_, _)
\* DELETE FROM alert_history WHERE alert_id = ?
WithoutHistoryOf(table, alert_id) ==
    IF table = <<>> THEN <<>>
    ELSE IF Head(table).alert_id = alert_id
         THEN WithoutHistoryOf(Tail(table), alert_id)
    ELSE <<Head(table)>> \o WithoutHistoryOf(Tail(table), alert_id)

\* app.py:248-255
delete_alert(alert_id) ==
    /\ pc' = "delete"
    /\ alerts' = WithoutAlert(alerts, alert_id)
    /\ alert_history' = WithoutHistoryOf(alert_history, alert_id)
    /\ flash' = "deleted"
    /\ request' = <<>>
    /\ NoPass
    /\ UNCHANGED <<next_id, scan_no, termVars, pageVars>>

-----------------------------------------------------------------------------
(* apples_v2.py: the scan pass's evaluation of the stored alert rules *)

\* load_alerts without the WHERE active = 1 of line 322
RECURSIVE load_alerts_Unfiltered(_)
load_alerts_Unfiltered(table) ==
    IF table = <<>> THEN <<>>
    ELSE LET a == Head(table)
         IN  Append(load_alerts_Unfiltered(Tail(table)),
                    [id |-> a.id, name |-> a.name, threshold |-> a.threshold,
                     email_to |-> a.email_to, active |-> a.active])

RECURSIVE load_alerts(_)
\* apples_v2.py:314-325: SELECT id, name, threshold, email_to, active FROM
\* alerts WHERE active = 1 ORDER BY id DESC
load_alerts(table) ==
    IF table = <<>> THEN <<>>
    ELSE LET a == Head(table)
         IN  IF a.active = 1
             THEN Append(load_alerts(Tail(table)),
                         [id |-> a.id, name |-> a.name, threshold |-> a.threshold,
                          email_to |-> a.email_to, active |-> a.active])
             ELSE load_alerts(Tail(table))

RECURSIVE Tripped(_, _)
\* apples_v2.py:470
Tripped(winners, threshold) ==
    IF winners = <<>> THEN <<>>
    ELSE IF DecLt(Val(Head(winners).price_dollars_per_kwh), threshold)
         THEN <<Head(winners)>> \o Tripped(Tail(winners), threshold)
    ELSE Tripped(Tail(winners), threshold)

\* apples_v2.py:474: the key (price, term or 0)
TrippedKeyLt(a, b) ==
    LET pa == Val(a.price_dollars_per_kwh)
        pb == Val(b.price_dollars_per_kwh)
        ta == IF IsNone(a.term_months) THEN 0 ELSE Val(a.term_months)
        tb == IF IsNone(b.term_months) THEN 0 ELSE Val(b.term_months)
    IN  DecLt(pa, pb) \/ (~DecLt(pb, pa) /\ ta < tb)

RECURSIVE SortTripped(_)
\* apples_v2.py:474: sorted(), which keeps equal keys in their order
SortTripped(s) ==
    IF s = <<>> THEN <<>>
    ELSE LET i == CHOOSE i \in DOMAIN s :
                     /\ \A j \in DOMAIN s : ~TrippedKeyLt(s[j], s[i])
                     /\ \A j \in 1..(i - 1) : TrippedKeyLt(s[i], s[j])
         IN  <<s[i]>> \o SortTripped(SubSeq(s, 1, i - 1) \o SubSeq(s, i + 1, Len(s)))

\* apples_v2.py:475-476: the rendered line: price, threshold, the term
\* ("n/a" for a term of 0, here None) and the supplier
AlertMessage(r, threshold) ==
    [price |-> Val(r.price_dollars_per_kwh), threshold |-> threshold,
     term |-> IF IsNone(r.term_months) \/ Val(r.term_months) = 0
              THEN None ELSE r.term_months,
     supplier |-> r.supplier]

\* apples_v2.py:478-486 with 327-341: the inserted alert_history row
HistoryRow(alert, r, ts) ==
    [alert_id |-> alert.id, triggered_at |-> ts,
     price |-> Val(r.price_dollars_per_kwh), term_months |-> r.term_months,
     supplier |-> r.supplier, message |-> AlertMessage(r, alert.threshold)]

\* apples_v2.py:468-486: the rows one rule adds to alert_history
RuleHistory(alert, winners, ts) ==
    LET sorted == SortTripped(Tripped(winners, alert.threshold))
    IN  [j \in DOMAIN sorted |-> HistoryRow(alert, sorted[j], ts)]

\* apples_v2.py:490-512: what becomes of the rule's email
RuleEmail(alert, ts, smtp_configured, failing) ==
    [alert_id |-> alert.id, at |-> ts,
     outcome |-> IF smtp_configured /\ alert.email_to # <<>>
                 THEN IF alert.id \in failing THEN "failed" ELSE "sent"
                 ELSE "unconfigured"]

\* apples_v2.py:478-512: what one rule does, in the order it does it: a
\* record_alert_history call for each tripped winner, then the email
RuleEvents(alert, winners, ts, smtp_configured, failing) ==
    LET written == RuleHistory(alert, winners, ts)
    IN  [j \in DOMAIN written |->
            [kind |-> "history", alert_id |-> alert.id,
             term_months |-> written[j].term_months, outcome |-> "written"]]
        \o << [kind |-> "email", alert_id |-> alert.id, term_months |-> None,
               outcome |-> RuleEmail(alert, ts, smtp_configured, failing).outcome] >>

RECURSIVE EvaluateAlerts_Raising(_, _, _, _, _)
\* the loop of lines 468-512 without the try/except of lines 493-507: a send
\* that raises ends the pass
EvaluateAlerts_Raising(loaded, winners, ts, smtp_configured, failing) ==
    IF loaded = <<>> THEN [history |-> <<>>, emails |-> <<>>, events |-> <<>>]
    ELSE LET alert == Head(loaded)
             mail == RuleEmail(alert, ts, smtp_configured, failing)
             later == IF mail.outcome = "failed"
                      THEN [history |-> <<>>, emails |-> <<>>, events |-> <<>>]
                      ELSE EvaluateAlerts_Raising(Tail(loaded), winners, ts,
                                                  smtp_configured, failing)
         IN  IF Tripped(winners, alert.threshold) = <<>>
             THEN EvaluateAlerts_Raising(Tail(loaded), winners, ts,
                                         smtp_configured, failing)
             ELSE [history |-> RuleHistory(alert, winners, ts) \o later.history,
                   emails |-> <<mail>> \o later.emails,
                   events |-> RuleEvents(alert, winners, ts, smtp_configured, failing)
                                 \o later.events]

RECURSIVE EvaluateAlerts(_, _, _, _, _)
\* apples_v2.py:468-512: the loop over the loaded rules
EvaluateAlerts(loaded, winners, ts, smtp_configured, failing) ==
    IF loaded = <<>> THEN [history |-> <<>>, emails |-> <<>>, events |-> <<>>]
    ELSE LET alert == Head(loaded)
             later == EvaluateAlerts(Tail(loaded), winners, ts, smtp_configured, failing)
         IN  IF Tripped(winners, alert.threshold) = <<>> THEN later
             ELSE [history |-> RuleHistory(alert, winners, ts) \o later.history,
                   emails |-> <<RuleEmail(alert, ts, smtp_configured, failing)>>
                                 \o later.emails,
                   events |-> RuleEvents(alert, winners, ts, smtp_configured, failing)
                                 \o later.events]

\* the offer lists the scanner extracts: the winners {12: $0.065, 36: $0.06},
\* the winners {0: $0.065, 24: $0.075}, and one variable-rate offer (no
\* qualifying offer)
ScanRows ==
    { << Fixed0(<<"A">>, Dec(65, 3), Some(12)), Fixed0(<<"B">>, Dec(6, 2), Some(36)) >>,
      << Fixed0(<<"B">>, Dec(75, 3), Some(24)), Fixed0(<<"A">>, Dec(65, 3), Some(0)) >>,
      << Offer(<<"A">>, Some(Dec(5, 2)), VariableText, Some(12), Some(Dec(0, 0)), Some(Dec(0, 0))) >> }

\* apples_v2.py:373-375: main's two selections from each extracted list
Selections ==
    [rs \in ScanRows |-> [best |-> choose_lowest(rs),
                          best_per_term |-> choose_lowest_per_term(rs)]]

MaxScans == 1

\* apples_v2.py:373-512 with ALERTS_DB set and no --alert-below: one scan
\* pass over the extracted rows rs.  smtp_configured says whether the SMTP
\* host and sender are set, failing names the rules whose send raises.  The
\* offers snapshot the pass also writes (Postgres, CSV) is a store no alert
\* request reads and is left out.
ScanPass(rs, smtp_configured, failing) ==
    \E lowest \in {Selections[rs].best}, winners \in {Selections[rs].best_per_term},
       loaded \in {load_alerts(alerts)} :
        /\ scan_no < MaxScans
        /\ scan_no' = scan_no + 1
        /\ pc' = "scanned"
        /\ rows' = rs
        /\ qual' = <<>>
        /\ best' = lowest
        /\ best_per_term' = winners
        /\ IF rs = <<>> \/ lowest = None
           THEN \* sys.exit(2), before the alerts are loaded
                /\ evaluated' = <<>>
                /\ emails' = <<>>
                /\ events' = <<>>
                /\ UNCHANGED alert_history
           ELSE /\ evaluated' = loaded
                /\ IF loaded # <<>> /\ winners # <<>>
                   THEN \E out \in {EvaluateAlerts(loaded, winners, scan_no + 1,
                                                   smtp_configured, failing)} :
                            /\ alert_history' = alert_history \o out.history
                            /\ emails' = out.emails
                            /\ events' = out.events
                   ELSE /\ emails' = <<>>
                        /\ events' = <<>>
                        /\ UNCHANGED alert_history
        /\ request' = <<>>
        /\ flash' = ""
        /\ UNCHANGED <<alerts, next_id, termVars, pageVars>>

-----------------------------------------------------------------------------
(* The dashboard and the scanner on one alerts database *)

Text007 == <<"0",".","0","7">>
Text12to24 == <<" ","1","2","-","2","4">>
TextBadTerm == <<"1","2","-">>
On == <<"o","n">>

Form(name, threshold, email_to, term_expr, active) ==
    [name |-> name, threshold |-> threshold, email_to |-> email_to,
     term_expr |-> term_expr, active |-> active]

\* the forms submitted: a rule at $0.07 with or without the qualifier
\* " 12-24", active or not, and one form for each way of refusal
Forms ==
    { Form(<<"r">>, Text007, <<"e">>, te, ac) :
        te \in {<<>>, Text12to24}, ac \in {On, <<>>} }
    \cup { Form(<<" ">>, Text007, <<"e">>, <<>>, On),
           Form(<<"r">>, <<>>, <<"e">>, <<>>, On),
           Form(<<"r">>, Text007, <<>>, Text12to24, On),
           Form(<<"r">>, <<"x">>, <<"e">>, <<>>, On),
           Form(<<"r">>, Text007, <<"e">>, TextBadTerm, On) }

ActiveIds == { alerts[i].id : i \in { j \in DOMAIN alerts : alerts[j].active = 1 } }

Init ==
    /\ pc = "start"
    /\ NoSelection
    /\ NoTerm
    /\ NoPage
    /\ NoAlerts

Next ==
    \/ \E form \in Forms : create_alert(form)
    \/ \E id \in 1..MaxAlerts : toggle_alert(id)
    \/ \E id \in 1..MaxAlerts : delete_alert(id)
    \/ \E rs \in ScanRows : ScanPass(rs, FALSE, {})
    \/ \E rs \in ScanRows, failing \in SUBSET ActiveIds :
           ScanPass(rs, TRUE, failing)

Spec == Init /\ [][Next]_vars

-----------------------------------------------------------------------------
(* apples_v2.py: fetch_html, one step for each GET attempt *)

MaxRetries == 3

Urls == {"u1", "u2"}

\* what requests.get or raise_for_status raises
GetErrors == {"timeout", "status"}

\* the text of a response; a response may be empty
Bodies == {"page", ""}

\* the loop of lines 54-61 has run out without a return
LoopDone_AfterOne(f) == Len(f.attempts) >= 1

\* apples_v2.py:54: for _ in range(retries) is over
LoopDone(f) == Len(f.attempts) >= f.retries

\* apples_v2.py:43-53: a call fetch_html(url, retries)
InitFetch ==
    /\ pc = "fetching"
    /\ fetch \in { [url |-> u, retries |-> n, attempts |-> <<>>, last_err |-> None,
                    text |-> None, raised |-> None] :
                   u \in Urls, n \in 0..MaxRetries }
    /\ html = <<>>
    /\ NoSelection
    /\ NoTerm
    /\ NoAlerts

\* apples_v2.py:56-58: the attempt succeeds and fetch_html returns r.text
GetOk(body) ==
    /\ pc = "fetching"
    /\ ~LoopDone(fetch)
    /\ fetch' = [fetch EXCEPT !.attempts = Append(@, "ok"), !.text = Some(body)]
    /\ pc' = "fetched"
    /\ UNCHANGED <<html, selVars, termVars, alertVars>>

\* apples_v2.py:56-61: the attempt raises e; last_err = e, sleep, next round
GetFails(e) ==
    /\ pc = "fetching"
    /\ ~LoopDone(fetch)
    /\ fetch' = [fetch EXCEPT !.attempts = Append(@, e), !.last_err = Some(e)]
    /\ pc' = "fetching"
    /\ UNCHANGED <<html, selVars, termVars, alertVars>>

\* apples_v2.py:62: raise RuntimeError(f"Failed to fetch {url}: {last_err}")
FetchRaise ==
    /\ pc = "fetching"
    /\ LoopDone(fetch)
    /\ fetch' = [fetch EXCEPT !.raised = Some([url |-> fetch.url,
                                               last_err |-> fetch.last_err])]
    /\ pc' = "fetch_failed"
    /\ UNCHANGED <<html, selVars, termVars, alertVars>>

NextFetch ==
    \/ \E body \in Bodies : GetOk(body)
    \/ \E e \in GetErrors : GetFails(e)
    \/ FetchRaise

\* every GET returns or raises within its timeout and the sleep of line 61
\* ends: a call that can take a step takes one
SpecFetch == InitFetch /\ [][NextFetch]_vars /\ WF_vars(NextFetch)

-----------------------------------------------------------------------------
(* apples_v2.py: find_offers_table and extract_rows on a parsed page.  A    *)
(* page is the sequence of its tables in document order.  A table is the    *)
(* rows of its thead, the rows that follow, and whether those stand in a    *)
(* tbody; a row is the sequence of its cells; a cell is its tag, its own    *)
(* text and the text of a span.retail-title inside it, if it has one.       *)
(* Tables inside tables are not modelled.                                   *)

Cell(tag, text, title) == [tag |-> tag, text |-> text, title |-> title]
Td(text) == Cell("td", text, None)
Th(text) == Cell("th", text, None)

Table(thead, tbody, trs) == [thead |-> thead, tbody |-> tbody, trs |-> trs]

\* get_text(" ", strip=True): the stripped pieces that are not empty, joined
\* by one space; the span comes first in its cell
GetText(cell) ==
    LET own == Strip(cell.text)
        span == IF IsNone(cell.title) THEN <<>> ELSE Strip(Val(cell.title))
    IN  IF span = <<>> THEN own
        ELSE IF own = <<>> THEN span
        ELSE span \o <<" ">> \o own

\* tbl.find_all("tr")
AllTrs(tbl) == tbl.thead \o tbl.trs

RECURSIVE CellsOf(_)
\* the cells of the rows trs, in document order
CellsOf(trs) == IF trs = <<>> THEN <<>> ELSE Head(trs) \o CellsOf(Tail(trs))

\* tbl.select("thead th")
TheadThs(tbl) == SelectSeq(CellsOf(tbl.thead), LAMBDA c : c.tag = "th")

\* apples_v2.py:117-121: the headers of one table
TableHeaders(tbl) ==
    LET ths == TheadThs(tbl)
        src == IF ths # <<>> THEN ths
               ELSE IF AllTrs(tbl) # <<>> THEN Head(AllTrs(tbl))
               ELSE <<>>
    IN  [i \in DOMAIN src |-> norm_header(GetText(src[i]))]

PriceName == <<"p","r","i","c","e">>
SupplierName == <<"s","u","p","p","l","i","e","r">>

\* apples_v2.py:122
IsOffersTable(tbl) ==
    LET headers == TableHeaders(tbl)
    IN  /\ \E i \in DOMAIN headers : headers[i] = PriceName
        /\ \E i \in DOMAIN headers : headers[i] = SupplierName

\* find_offers_table returning the last table that has both headers
find_offers_table_Last(soup) ==
    LET hits == { i \in DOMAIN soup : IsOffersTable(soup[i]) }
    IN  IF hits = {} THEN [tbl |-> None, headers |-> <<>>]
        ELSE LET i == CHOOSE j \in hits : \A k \in hits : k <= j
             IN  [tbl |-> Some(i), headers |-> TableHeaders(soup[i])]

\* apples_v2.py:114-124: the position of the table found, and its headers
find_offers_table(soup) ==
    LET hits == { i \in DOMAIN soup : IsOffersTable(soup[i]) }
    IN  IF hits = {} THEN [tbl |-> None, headers |-> <<>>]
        ELSE LET i == CHOOSE j \in hits : \A k \in hits : j <= k
             IN  [tbl |-> Some(i), headers |-> TableHeaders(soup[i])]

\* apples_v2.py:132: "name" in idx
HasIdx(headers, name) == \E i \in DOMAIN headers : headers[i] = name

\* apples_v2.py:132: idx[name], the last column of that name, counted from 1
Idx(headers, name) ==
    CHOOSE i \in DOMAIN headers :
        headers[i] = name /\ \A j \in DOMAIN headers : headers[j] = name => j <= i

\* apples_v2.py:137-183: the record of one tr, or None when the row is skipped
RowRecord(headers, tr) ==
    LET tds == SelectSeq(tr, LAMBDA c : c.tag = "td")
        width == IF Len(tds) >= Len(headers) THEN Len(tds) ELSE Len(headers)
        cells == [i \in 1..width |-> IF i <= Len(tds) THEN Some(tds[i]) ELSE None]
        At(name) == cells[IF HasIdx(headers, name) THEN Idx(headers, name) ELSE 1]
        TextAt(name) ==
            IF HasIdx(headers, name) /\ ~IsNone(At(name))
            THEN GetText(Val(At(name))) ELSE <<>>
        supplier_cell == At(SupplierName)
        supplier ==
            IF IsNone(supplier_cell) THEN <<>>
            ELSE IF ~IsNone(Val(supplier_cell).title)
                 THEN Strip(Val(Val(supplier_cell).title))
                 ELSE GetText(Val(supplier_cell))
        price_cell == At(PriceName)
        price == parse_dollars_per_kwh(
                     IF IsNone(price_cell) THEN <<>> ELSE GetText(Val(price_cell)))
        term_name == <<"t","e","r","m">>
        etf_str == TextAt(<<"e","t","f">>)
        monthly_fee_str == TextAt(<<"m", "o", "n", "t", "h", "l", "y", "_", "f", "e", "e">>)
    IN  IF tds = <<>> THEN None
        ELSE IF supplier = <<>> \/ IsNone(price) THEN None
        ELSE Some([supplier |-> supplier,
                   price_dollars_per_kwh |-> price,
                   rate_type |-> TextAt(<<"r", "a", "t", "e", "_", "t", "y", "p", "e">>),
                   term_months |-> IF HasIdx(headers, term_name) /\ ~IsNone(At(term_name))
                                   THEN parse_term_months(GetText(Val(At(term_name))))
                                   ELSE None,
                   etf |-> etf_str,
                   etf_amount |-> parse_money_to_float(etf_str),
                   monthly_fee |-> monthly_fee_str,
                   monthly_fee_amount |-> parse_money_to_float(monthly_fee_str),
                   renewable |-> TextAt(<<"r", "e", "n", "e", "w", "a", "b", "l", "e">>),
                   promo |-> TextAt(<<"p","r","o","m","o">>),
                   intro_price |-> TextAt(<<"i", "n", "t", "r", "o", "_", "p", "r", "i", "c", "e">>)])

RECURSIVE RowRecords(_, _)
\* apples_v2.py:136-182: the records of the rows trs, in their order
RowRecords(headers, trs) ==
    IF trs = <<>> THEN <<>>
    ELSE LET r == RowRecord(headers, Head(trs))
         IN  (IF IsNone(r) THEN <<>> ELSE <<Val(r)>>) \o RowRecords(headers, Tail(trs))

\* apples_v2.py:133: tbl.select("tbody tr") or tbl.find_all("tr")
BodyTrs(tbl) == IF tbl.tbody /\ tbl.trs # <<>> THEN tbl.trs ELSE AllTrs(tbl)

\* apples_v2.py:126-183: the RuntimeError of line 130, or the rows
extract_rows(page) ==
    LET found == find_offers_table(page)
    IN  IF IsNone(found.tbl) THEN [raised |-> TRUE, rows |-> <<>>]
        ELSE [raised |-> FALSE,
              rows |-> RowRecords(found.headers, BodyTrs(page[Val(found.tbl)]))]

\* apples_v2.py:373: rows = extract_rows(html); the RuntimeError ends main
ExtractRows ==
    /\ pc = "page"
    /\ \E r \in {extract_rows(html)} :
          IF r.raised
          THEN pc' = "no_table" /\ rows' = rows
          ELSE pc' = "input" /\ rows' = r.rows
    /\ UNCHANGED <<qual, best, best_per_term, termVars, alertVars, pageVars>>

NextExtract == ExtractRows \/ Select

-----------------------------------------------------------------------------
(* Pages for the table locator: up to MaxTables tables, each one of a few   *)
(* shapes of header, with one offer row that names the table it stands in   *)

MaxTables == 2

\* the six columns the selection reads, as the site and as norm_header's
\* other spellings write them
SiteHeaders ==
    << <<"S","u","p","p","l","i","e","r">>, <<"$","/","k","W","h">>, <<"R","a","t","e"," ","T","y","p","e">>, <<"T","e","r","m","."," ","L","e","n","g","t","h">>,
       <<"E","a","r","l","y"," ","T","e","r","m","."," ","F","e","e">>, <<"M","o","n","t","h","l","y"," ","F","e","e">> >>
OtherHeaders ==
    << <<"C","o","m","p","a","n","y">>, <<"P","r","i","c","e">>, <<"r","a","t","e"," "," ","t","y","p","e">>, <<"T","e","r","m"," ","L","e","n","g","t","h">>,
       <<"E","a","r","l","y"," ","T","e","r","m","i","n","a","t","i","o","n"," ","F","e","e">>, <<" ","M","O","N","T","H","L","Y"," ","F","E","E"," ">> >>

HeaderRow(tag, texts) == [i \in DOMAIN texts |-> Cell(tag, texts[i], None)]

OfferTr(supplier, price, rate, term, etf, monthly) ==
    << Td(supplier), Td(price), Td(rate), Td(term), Td(etf), Td(monthly) >>

\* a fixed 12-month offer at $0.06 with both fees "$0"
PlainTr(supplier) ==
    OfferTr(supplier, <<"0",".","0","6">>, FixedText, <<"1","2"," ","m","o",".">>, <<"$","0">>, <<"$","0">>)

LocateTables ==
    { \* th cells in a thead, rows in a tbody
      Table(<<HeaderRow("th", SiteHeaders)>>, TRUE, <<PlainTr(<<"A">>)>>),
      \* no thead: the first row holds th cells
      Table(<<>>, FALSE, <<HeaderRow("th", OtherHeaders), PlainTr(<<"B">>)>>),
      \* a thead of td cells
      Table(<<HeaderRow("td", SiteHeaders)>>, TRUE, <<PlainTr(<<"C">>)>>),
      \* no thead: the first row holds td cells
      Table(<<>>, FALSE, <<HeaderRow("td", OtherHeaders), PlainTr(<<"D">>)>>),
      \* th cells in the thead without a price; the names are in the body
      Table(<<HeaderRow("th", << <<"S","u","p","p","l","i","e","r">>, <<"R","a","t","e"," ","T","y","p","e">> >>)>>, TRUE,
            <<HeaderRow("td", SiteHeaders), PlainTr(<<"E">>)>>),
      \* a price column and no supplier column
      Table(<<>>, FALSE,
            << HeaderRow("th", << <<"$","/","k","W","h">>, <<"T","e","r","m","."," ","L","e","n","g","t","h">> >>),
               << Td(<<"0",".","0","5">>), Td(<<"1","2">>) >> >>),
      \* the names in the second row
      Table(<<>>, FALSE,
            << <<Td(<<"O","f","f","e","r","s">>)>>, HeaderRow("th", SiteHeaders), PlainTr(<<"G">>) >>),
      \* a layout table, and a table without rows
      Table(<<>>, FALSE, << <<Td(<<"C","o","m","p","a","r","e"," ","o","f","f","e","r","s">>)>> >>),
      Table(<<>>, FALSE, <<>>) }

InitLocate ==
    /\ html \in SeqsUpTo(LocateTables, MaxTables)
    /\ fetch = <<>>
    /\ pc = "page"
    /\ NoSelection
    /\ NoTerm
    /\ NoAlerts

SpecLocate == InitLocate /\ [][NextExtract]_vars

-----------------------------------------------------------------------------
(* Pages for extract_rows: one offers table of up to MaxTrs rows under the  *)
(* site's six headers, the headers in a thead or in the first row           *)

MaxTrs == 2

ExtractTrs ==
    { PlainTr(<<"A">>),
      \* the supplier's name in a span.retail-title, other text after it
      << Cell("td", <<" ","(","d","e","t","a","i","l","s",")"," ">>, Some(<<" ","B","e","t","a"," ","C","o"," ">>)), Td(<<"$","0",".","0","5","4","9">>),
         Td(FixedText), Td(<<"2","4">>), Td(<<"$","0",".","0","0">>), Td(<<"$","0",".","0","0">>) >>,
      \* no supplier text
      OfferTr(<<>>, <<"0",".","0","5">>, FixedText, <<"1","2">>, <<"$","0">>, <<"$","0">>),
      OfferTr(<<" "," ">>, <<"0",".","0","5">>, FixedText, <<"1","2">>, <<"$","0">>, <<"$","0">>),
      \* no number in the price cell
      OfferTr(<<"C">>, <<"n","/","a">>, FixedText, <<"1","2">>, <<"$","0">>, <<"$","0">>),
      OfferTr(<<"C">>, <<>>, FixedText, <<"1","2">>, <<"$","0">>, <<"$","0">>),
      \* fewer cells than headers
      << Td(<<"D">>) >>,
      << Td(<<"D">>), Td(<<"$","0",".","0","5","5","/","k","W","h">>) >>,
      \* a price of zero, and a price written with a minus sign
      OfferTr(<<"E">>, <<"0">>, FixedText, <<"1","2">>, <<"$","0">>, <<"$","0">>),
      OfferTr(<<"E">>, <<"-","0",".","0","5">>, VariableText, <<"1">>, <<"$","2","5">>, <<"n","/","a">>),
      \* rows without td cells
      << Th(<<"O","f","f","e","r","s">>) >>,
      << >>,
      \* a th before the td cells
      << Th(<<"1">>) >> \o PlainTr(<<"F">>) }

\* the page of one offers table with the rows trs, its headers in a thead
\* before a tbody or in the first row
ExtractPage(trs, thead) ==
    IF thead
    THEN << Table(<<HeaderRow("th", SiteHeaders)>>, TRUE, trs) >>
    ELSE << Table(<<>>, FALSE, <<HeaderRow("th", SiteHeaders)>> \o trs) >>

InitExtract ==
    /\ \E trs \in SeqsUpTo(ExtractTrs, MaxTrs), thead \in BOOLEAN :
          html = ExtractPage(trs, thead)
    /\ fetch = <<>>
    /\ pc = "page"
    /\ NoSelection
    /\ NoTerm
    /\ NoAlerts

SpecExtract == InitExtract /\ [][NextExtract]_vars

-----------------------------------------------------------------------------
(* Pages for the fee cells: one offers table of two rows.  The first row is *)
(* the cheaper offer and has one fee cell written from up to MaxFeeTokens   *)
(* tokens, the other reading "$0.00"; the second row has both fees "$0.00". *)

MaxFeeTokens == 2

FeeTokens ==
    FeePlaceholders
    \cup { <<"$","0",".","0","0">>, <<"$">>, <<"0">>, <<"0","0">>, <<"5">>, <<".">>, <<",">>, <<" ">>, <<"f","e","e">> }

RECURSIVE FeeTexts(_)
\* every concatenation of at most n tokens
FeeTexts(n) ==
    IF n = 0 THEN { <<>> }
    ELSE LET shorter == FeeTexts(n - 1)
         IN  shorter \cup { s \o t : s \in shorter, t \in FeeTokens }

ZeroFee == <<"$","0",".","0","0">>

\* the page whose first row has the fee cell of column col reading t
FeePage(t, col) ==
    << Table(<<HeaderRow("th", SiteHeaders)>>, TRUE,
             << OfferTr(<<"A">>, <<"0",".","0","5">>, FixedText, <<"1","2">>,
                        IF col = "etf" THEN t ELSE ZeroFee,
                        IF col = "etf" THEN ZeroFee ELSE t),
                OfferTr(<<"B">>, <<"0",".","0","6">>, FixedText, <<"1","2">>,
                        ZeroFee, ZeroFee) >>) >>

InitFee ==
    /\ \E t \in FeeTexts(MaxFeeTokens), col \in {"etf", "monthly_fee"} :
          html = FeePage(t, col)
    /\ fetch = <<>>
    /\ pc = "page"
    /\ NoSelection
    /\ NoTerm
    /\ NoAlerts

SpecFee == InitFee /\ [][NextExtract]_vars

-----------------------------------------------------------------------------
(* The scanner on an alerts database it did not see being written: the     *)
(* file ALERTS_DB names may hold rows of an earlier dashboard or of another *)
(* writer, whose term_expr no create_alert has validated.                   *)

StoredRule(id, term_expr, active) ==
    [id |-> id, name |-> <<"r">>, threshold |-> Dec(7, 2), email_to |-> <<"e">>,
     term_expr |-> term_expr, active |-> active]

\* the term_expr column: NULL, a range, text no form of the parser accepts
StoredTermExprs == {None, Some(Text12to24), Some(TextBadTerm)}

StoredTables ==
    UNION { { [i \in 1..n |-> StoredRule(i, te[i], ac[i])] :
                te \in [1..n -> StoredTermExprs], ac \in [1..n -> {0, 1}] } :
            n \in 0..MaxAlerts }

InitStored ==
    /\ pc = "start"
    /\ NoSelection
    /\ NoTerm
    /\ NoPage
    /\ alerts \in StoredTables
    /\ next_id = Len(alerts) + 1
    /\ alert_history = <<>> /\ emails = <<>> /\ flash = ""
    /\ request = <<>> /\ evaluated = <<>> /\ scan_no = 0
    /\ events = <<>>

NextStored ==
    \/ \E rs \in ScanRows : ScanPass(rs, FALSE, {})
    \/ \E rs \in ScanRows, failing \in SUBSET ActiveIds :
           ScanPass(rs, TRUE, failing)

SpecStored == InitStored /\ [][NextStored]_vars

-----------------------------------------------------------------------------
(* C5, C6, C9: which (rule, winner) pairs a pass records *)

\* term within the inclusive [lo, hi], an absent bound unbounded
TermInRange(term, range) ==
    /\ (IsNone(range.lo) \/ ~DecLt(Dec(term, 0), Val(range.lo)))
    /\ (IsNone(range.hi) \/ ~DecLt(Val(range.hi), Dec(term, 0)))

\* the rule of the specification: the price is under the threshold and the
\* term satisfies the qualifier, if the rule has one
TripsBySpec(rule, winner) ==
    /\ DecLt(Val(winner.price_dollars_per_kwh), rule.threshold)
    /\ \/ IsNone(rule.term_expr)
       \/ /\ parse_term_expression(Val(rule.term_expr)).ok
          /\ TermInRange(Val(winner.term_months),
                         parse_term_expression(Val(rule.term_expr)))

\* the rows of alert_history this pass wrote for the rule and the winner
MatchRecords(rule, winner) ==
    { i \in DOMAIN alert_history :
        /\ alert_history[i].alert_id = rule.id
        /\ alert_history[i].triggered_at = scan_no
        /\ alert_history[i].price = Val(winner.price_dollars_per_kwh)
        /\ alert_history[i].term_months = winner.term_months
        /\ alert_history[i].supplier = winner.supplier
        /\ alert_history[i].message.price = Val(winner.price_dollars_per_kwh)
        /\ alert_history[i].message.threshold = rule.threshold
        /\ alert_history[i].message.supplier = winner.supplier }

ActiveRules == { i \in DOMAIN alerts : alerts[i].active = 1 }

\* C5: after a pass, a per-term winner has tripped an active rule (the pass
\* recorded the pair) if and only if its price is under the rule's threshold
\* and its term lies within the rule's qualifier, when the rule has one.
C5_TripsIff ==
    pc = "scanned" =>
        \A i \in ActiveRules : \A j \in DOMAIN best_per_term :
            (\E h \in DOMAIN alert_history :
                /\ alert_history[h].alert_id = alerts[i].id
                /\ alert_history[h].triggered_at = scan_no
                /\ alert_history[h].term_months = best_per_term[j].term_months)
            <=> TripsBySpec(alerts[i], best_per_term[j])

\* C6: after a pass, every (active rule, per-term winner) pair that trips has
\* exactly one alert_history row with the rule's id, the pass timestamp, the
\* winner's price, term and supplier and the message, and a pair that does
\* not trip has none.
C6_OneRecordPerTrip ==
    pc = "scanned" =>
        \A i \in ActiveRules : \A j \in DOMAIN best_per_term :
            Cardinality(MatchRecords(alerts[i], best_per_term[j]))
                = IF TripsBySpec(alerts[i], best_per_term[j]) THEN 1 ELSE 0

\* C9: after a pass, an active stored rule whose term qualifier does not
\* parse has been skipped: the pass wrote no alert_history row and sent no
\* email for it.
C9_UnparseableSkipped ==
    pc = "scanned" =>
        \A i \in ActiveRules :
            (~IsNone(alerts[i].term_expr)
                /\ ~parse_term_expression(Val(alerts[i].term_expr)).ok)
            => /\ \A h \in DOMAIN alert_history :
                    ~(alert_history[h].alert_id = alerts[i].id
                        /\ alert_history[h].triggered_at = scan_no)
               /\ \A e \in DOMAIN emails : emails[e].alert_id # alerts[i].id

-----------------------------------------------------------------------------
(* C8: only qualifiers the parser accepts are stored *)

\* a create_alert form the handler must refuse
RequestInvalid(form) ==
    \/ Strip(form.name) = <<>>
    \/ Strip(form.threshold) = <<>>
    \/ Strip(form.email_to) = <<>>
    \/ IsNone(ParseFloat(Strip(form.threshold)))
    \/ /\ Strip(form.term_expr) # <<>>
       /\ ~parse_term_expression(Strip(form.term_expr)).ok

\* every stored rule's term_expr is absent or accepted by the parser
StoredValid ==
    \A i \in DOMAIN alerts :
        \/ IsNone(alerts[i].term_expr)
        \/ parse_term_expression(Val(alerts[i].term_expr)).ok

\* C8: the alerts table starts with, and every create_alert, toggle_alert or
\* delete_alert step that changes it leaves, only rules whose term_expr is
\* absent or accepted by parse_term_expression; and a create_alert request
\* with an unparseable qualifier, a missing name, threshold or email or a
\* threshold that is not a number leaves the alerts table and its id counter
\* as they were.
C8_OnlyValidStored ==
    /\ StoredValid
    /\ [][ /\ alerts' # alerts =>
                 \A i \in DOMAIN alerts' :
                     \/ IsNone(alerts'[i].term_expr)
                     \/ parse_term_expression(Val(alerts'[i].term_expr)).ok
           /\ (pc' = "create" /\ RequestInvalid(request'))
                 => (alerts' = alerts /\ next_id' = next_id) ]_vars

\* a form with the qualifier "12-" has just been refused while the table
\* holds a rule with a qualifier
C8_Witness ==
    /\ pc = "create"
    /\ request # <<>>
    /\ request.term_expr = TextBadTerm
    /\ flash = "term"
    /\ \E i \in DOMAIN alerts : ~IsNone(alerts[i].term_expr)

-----------------------------------------------------------------------------
(* C10: the pass reads the rules, and only the active ones *)

\* C10: a scan pass leaves the alerts table and its id counter as they were,
\* evaluates exactly the stored rules with active = 1 when it reaches the
\* alert evaluation, and writes history rows and emails for a stored rule
\* only if the rule is active: it writes them exactly for the active rules
\* with a per-term winner under their threshold.
C10_ReadOnlyActiveOnly ==
    [][ (pc' = "scanned" /\ scan_no' # scan_no) =>
          /\ alerts' = alerts
          /\ next_id' = next_id
          /\ best' # None =>
                { evaluated'[k].id : k \in DOMAIN evaluated' }
                    = { alerts[i].id : i \in ActiveRules }
          /\ \A i \in DOMAIN alerts :
                LET written ==
                        \/ \E h \in DOMAIN alert_history' :
                              /\ alert_history'[h].alert_id = alerts[i].id
                              /\ alert_history'[h].triggered_at = scan_no'
                        \/ \E e \in DOMAIN emails' :
                              emails'[e].alert_id = alerts[i].id
                    under ==
                        \E j \in DOMAIN best_per_term' :
                            DecLt(Val(best_per_term'[j].price_dollars_per_kwh),
                                  alerts[i].threshold)
                IN  written <=> (alerts[i].active = 1 /\ under) ]_vars

\* after a pass with a winner under $0.07, an inactive rule has no row and
\* no email of the pass while an active rule has both
C10_Witness ==
    /\ pc = "scanned"
    /\ \E i, k \in DOMAIN alerts :
        /\ alerts[i].active = 0
        /\ \E j \in DOMAIN best_per_term :
              DecLt(Val(best_per_term[j].price_dollars_per_kwh), alerts[i].threshold)
        /\ \A h \in DOMAIN alert_history : alert_history[h].alert_id # alerts[i].id
        /\ \A e \in DOMAIN emails : emails[e].alert_id # alerts[i].id
        /\ alerts[k].active = 1
        /\ \E h \in DOMAIN alert_history :
              alert_history[h].alert_id = alerts[k].id
                /\ alert_history[h].triggered_at = scan_no
        /\ \E e \in DOMAIN emails : emails[e].alert_id = alerts[k].id

-----------------------------------------------------------------------------
(* C11: the first table with both names is the offers table *)

\* the tables of the page whose headers hold both price and supplier
OffersTables == { i \in DOMAIN html : IsOffersTable(html[i]) }

\* C11: the rows extracted are those of the first table, in document order,
\* whose normalized headers (the th cells of its thead if it has any, else
\* the cells of its first row) hold both price and supplier; when no table
\* has both, extraction fails and no offer list, not even a partial one, is
\* returned
C11_FirstOffersTable ==
    /\ pc = "no_table" => OffersTables = {}
    /\ pc = "no_table" =>
          rows = <<>> /\ qual = <<>> /\ best = None /\ best_per_term = <<>>
    /\ pc \in {"input", "selected"} =>
          \E i \in OffersTables :
             /\ \A k \in OffersTables : i <= k
             /\ rows = RowRecords(TableHeaders(html[i]), BodyTrs(html[i]))
    /\ (pc # "page" /\ OffersTables = {}) => pc = "no_table"

\* C11 witness: a page of two different offers tables; the rows are those
\* of the first and not those of the second
C11_Witness ==
    /\ pc = "input"
    /\ OffersTables = {1, 2}
    /\ rows = RowRecords(TableHeaders(html[1]), BodyTrs(html[1]))
    /\ rows # RowRecords(TableHeaders(html[2]), BodyTrs(html[2]))

-----------------------------------------------------------------------------
(* C12: what extract_rows keeps of a table under the site's headers *)

\* the td cells of a row
TdsOf(tr) == SelectSeq(tr, LAMBDA c : c.tag = "td")

\* the supplier text of a row: its first td, the retail title if it has one
TrSupplierOf(tr) ==
    LET tds == TdsOf(tr)
    IN  IF tds = <<>> THEN <<>>
        ELSE IF ~IsNone(tds[1].title) THEN Strip(Val(tds[1].title))
        ELSE Strip(tds[1].text)

\* the price of a row: its second td, parsed
TrPriceOf(tr) ==
    LET tds == TdsOf(tr)
    IN  IF Len(tds) < 2 THEN None ELSE parse_dollars_per_kwh(Strip(tds[2].text))

\* the rows of the table that have a supplier text and a price
OfferTrsOf(tbl) ==
    SelectSeq(BodyTrs(tbl), LAMBDA tr : TrSupplierOf(tr) # <<>> /\ ~IsNone(TrPriceOf(tr)))

\* the records are the rows with a supplier text and a price, in document
\* order, every other row dropped without an error, and the cells a short
\* row lacks are absent
RowsKept ==
    pc = "input" =>
        LET kept == OfferTrsOf(html[1])
        IN  /\ Len(rows) = Len(kept)
            /\ \A i \in DOMAIN rows :
                  /\ rows[i].supplier = TrSupplierOf(kept[i])
                  /\ rows[i].price_dollars_per_kwh = TrPriceOf(kept[i])
                  /\ Len(TdsOf(kept[i])) < 3 => rows[i].rate_type = <<>>
                  /\ Len(TdsOf(kept[i])) < 4 => IsNone(rows[i].term_months)
                  /\ Len(TdsOf(kept[i])) < 5 => IsNone(rows[i].etf_amount)
                  /\ Len(TdsOf(kept[i])) < 6 => IsNone(rows[i].monthly_fee_amount)

\* C12: every record of extract_rows has a non-empty supplier and a present,
\* positive price; a row is dropped, without an error, exactly when its
\* supplier text is empty or its price parses to none; short rows are padded
\* with absent cells; the records are in document row order
C12_RecordsValid ==
    /\ pc # "no_table"
    /\ RowsKept
    /\ \A i \in DOMAIN rows :
          /\ rows[i].supplier # <<>>
          /\ ~IsNone(rows[i].price_dollars_per_kwh)
          /\ DecLt(Dec(0, 0), Val(rows[i].price_dollars_per_kwh))

-----------------------------------------------------------------------------
(* C13: a fee that cannot be read is absent, and an absent fee disqualifies *)

\* a fee text that is a placeholder or holds no digit
FeeUnreadable(s) ==
    Strip(s) \in FeePlaceholders \/ \A i \in DOMAIN s : ~IsDigit(s[i])

\* the offer has a fee that parsed to absent
FeeAbsent(row) == IsNone(row.etf_amount) \/ IsNone(row.monthly_fee_amount)

\* C13: whatever the fee cells read, extraction ends without an error and
\* with both rows; a fee text that is a placeholder or holds no digit parses
\* to absent and "$0.00" parses to exactly 0; an offer with an absent fee
\* does not qualify and is returned by neither selection
C13_AbsentFeeDisqualifies ==
    /\ pc # "no_table"
    /\ pc \in {"input", "selected"} =>
          /\ Len(rows) = 2
          /\ \A i \in DOMAIN rows :
                /\ FeeUnreadable(rows[i].etf) => IsNone(rows[i].etf_amount)
                /\ FeeUnreadable(rows[i].monthly_fee) => IsNone(rows[i].monthly_fee_amount)
                /\ rows[i].etf = ZeroFee => rows[i].etf_amount = Some(Dec(0, 0))
                /\ rows[i].monthly_fee = ZeroFee =>
                      rows[i].monthly_fee_amount = Some(Dec(0, 0))
    /\ pc = "selected" =>
          \A i \in DOMAIN rows :
              FeeAbsent(rows[i]) =>
                  /\ ~qual[i]
                  /\ best # Some(rows[i])
                  /\ \A j \in DOMAIN best_per_term : best_per_term[j] # rows[i]

\* C13 witness: the cheaper offer's early termination fee reads as the dash
\* placeholder and is absent, the other offer's reads "$0.00" and is 0, and
\* the other offer is the one selected
C13_Witness ==
    /\ pc = "selected"
    /\ Len(rows) = 2
    /\ rows[1].etf = <<EmDash>>
    /\ IsNone(rows[1].etf_amount)
    /\ rows[2].etf = ZeroFee
    /\ rows[2].etf_amount = Some(Dec(0, 0))
    /\ DecLt(Val(rows[1].price_dollars_per_kwh), Val(rows[2].price_dollars_per_kwh))
    /\ best = Some(rows[2])
    /\ best_per_term = <<rows[2]>>

-----------------------------------------------------------------------------
(* C14: fetch_html ends, with the first good body or with the error *)

FetchEnded == pc \in {"fetched", "fetch_failed"}

AllFailed(f) == \A i \in DOMAIN f.attempts : f.attempts[i] \in GetErrors

\* C14: a call of fetch_html never makes more than `retries` attempts and
\* makes none after a success or after raising; it ends; it ends by returning
\* the body of its first successful attempt, with nothing raised; and it ends
\* by raising, with the URL and the last failure and no text returned, if
\* and only if all `retries` attempts were made and failed.
C14_FetchTerminates ==
    /\ [](Len(fetch.attempts) <= fetch.retries)
    /\ [][FetchEnded => (fetch' = fetch /\ pc' = pc)]_vars
    /\ <>FetchEnded
    /\ [](pc = "fetched" =>
            /\ fetch.attempts # <<>>
            /\ fetch.attempts[Len(fetch.attempts)] = "ok"
            /\ AllFailed([fetch EXCEPT !.attempts =
                             SubSeq(@, 1, Len(fetch.attempts) - 1)])
            /\ Val(fetch.text) \in Bodies
            /\ IsNone(fetch.raised))
    /\ [](FetchEnded =>
            (pc = "fetch_failed"
                <=> (Len(fetch.attempts) = fetch.retries /\ AllFailed(fetch))))
    /\ [](pc = "fetch_failed" =>
            /\ IsNone(fetch.text)
            /\ Val(fetch.raised).url = fetch.url
            /\ Val(fetch.raised).last_err = fetch.last_err
            /\ fetch.retries > 0 =>
                  fetch.last_err = Some(fetch.attempts[Len(fetch.attempts)]))

\* a call with three retries that failed twice, differently, and then
\* returned a body
C14_Witness ==
    /\ pc = "fetched"
    /\ fetch.retries = 3
    /\ Len(fetch.attempts) = 3
    /\ fetch.attempts[1] # fetch.attempts[2]
    /\ fetch.text = Some("page")

-----------------------------------------------------------------------------
(* C17: a returned range with both bounds is in order *)

\* C17: whenever parse_term_expression returns a pair with both bounds
\* present, the lower bound is at most the upper bound.
C17_RangeInOrder ==
    (pc = "parsed" /\ Val(parsed).ok
        /\ ~IsNone(Val(parsed).lo) /\ ~IsNone(Val(parsed).hi))
    => ~DecLt(Val(Val(parsed).hi), Val(Val(parsed).lo))

-----------------------------------------------------------------------------
(* C15: the two selections of one offer list agree *)

\* C15: after the two selections of one list, there are per-term winners only
\* if there is an overall winner; no per-term winner is cheaper than the
\* overall winner; and if the overall winner has a term, the per-term winner
\* of that term has the overall winner's price.
C15_SelectorsConsistent ==
    pc = "selected" =>
        /\ best_per_term # <<>> => best # None
        /\ best # None =>
              \A j \in DOMAIN best_per_term :
                  ~DecLt(Val(best_per_term[j].price_dollars_per_kwh),
                         Val(Val(best).price_dollars_per_kwh))
        /\ (best # None /\ ~IsNone(Val(best).term_months)) =>
              \E j \in DOMAIN best_per_term :
                  /\ best_per_term[j].term_months = Val(best).term_months
                  /\ ~DecLt(Val(best_per_term[j].price_dollars_per_kwh),
                            Val(Val(best).price_dollars_per_kwh))
                  /\ ~DecLt(Val(Val(best).price_dollars_per_kwh),
                            Val(best_per_term[j].price_dollars_per_kwh))

\* a list with a cheaper offer that does not qualify, an overall winner with
\* a term, and a per-term winner of another term at a higher price
C15_Witness ==
    /\ pc = "selected"
    /\ best # None
    /\ ~IsNone(Val(best).term_months)
    /\ \E i \in DOMAIN rows :
          /\ ~qual[i]
          /\ DecLt(Val(rows[i].price_dollars_per_kwh),
                   Val(Val(best).price_dollars_per_kwh))
    /\ \E j \in DOMAIN best_per_term :
          /\ best_per_term[j].term_months # Val(best).term_months
          /\ DecLt(Val(Val(best).price_dollars_per_kwh),
                   Val(best_per_term[j].price_dollars_per_kwh))

-----------------------------------------------------------------------------
(* C16: history first, then the email; a failed email stops nothing *)

\* the per-term winners under the rule's threshold
WinnersUnder(rule) ==
    { j \in DOMAIN best_per_term :
        DecLt(Val(best_per_term[j].price_dollars_per_kwh), rule.threshold) }

\* the positions in the pass's order at which the rule's email was attempted
EmailAt(rule) ==
    { p \in DOMAIN events : events[p].kind = "email" /\ events[p].alert_id = rule.id }

\* C16: after a pass, every rule handed to the evaluation that has a winner
\* under its threshold had its email attempted exactly once (sent, failed or
\* found unconfigured), whatever became of the other rules' emails; a history
\* write for each of its tripped winners precedes that attempt and none
\* follows it; and the rows are in alert_history whatever the outcome was.
C16_HistoryBeforeEmail ==
    pc = "scanned" =>
        \A k \in DOMAIN evaluated :
            WinnersUnder(evaluated[k]) # {} =>
                /\ Cardinality(EmailAt(evaluated[k])) = 1
                /\ \A p \in EmailAt(evaluated[k]) :
                    /\ events[p].outcome \in {"sent", "failed", "unconfigured"}
                    /\ \A j \in WinnersUnder(evaluated[k]) :
                          \E q \in 1..(p - 1) :
                              /\ events[q].kind = "history"
                              /\ events[q].alert_id = evaluated[k].id
                              /\ events[q].term_months = best_per_term[j].term_months
                    /\ \A q \in (p + 1)..Len(events) :
                          ~(events[q].kind = "history"
                              /\ events[q].alert_id = evaluated[k].id)
                /\ \A j \in WinnersUnder(evaluated[k]) :
                      \E h \in DOMAIN alert_history :
                          /\ alert_history[h].alert_id = evaluated[k].id
                          /\ alert_history[h].triggered_at = scan_no
                          /\ alert_history[h].term_months = best_per_term[j].term_months

\* a pass in which the first rule's send raised and the rule after it, with
\* two tripped winners, was still recorded and mailed
C16_Witness ==
    /\ pc = "scanned"
    /\ Len(evaluated) >= 2
    /\ Cardinality(WinnersUnder(evaluated[2])) >= 2
    /\ \E p \in EmailAt(evaluated[1]), q \in EmailAt(evaluated[2]) :
          /\ events[p].outcome = "failed"
          /\ p < q
          /\ events[q].outcome = "sent"
    /\ \E h \in DOMAIN alert_history : alert_history[h].alert_id = evaluated[1].id

-----------------------------------------------------------------------------
(* C7: the six-step reference of the specification's section 4.6, written  *)
(* as a classification of the cleaned text into one qualifier form.        *)

\* the unit words, longest first, then "to" as the range separator, then the
\* spaces
RefCleaned(text) ==
    LET t0 == Lower(Strip(text))
        t1 == Replace(t0, <<"m","o","n","t","h","s">>, <<>>)
        t2 == Replace(t1, <<"m","o","n","t","h">>, <<>>)
        t3 == Replace(t2, <<"m","o","s">>, <<>>)
        t4 == Replace(t3, <<"m","o">>, <<>>)
        t5 == Replace(t4, <<"t","o">>, <<"-">>)
    IN  Replace(t5, <<" ">>, <<>>)

\* the step that matches first: 1 blank, 2 comparator, 3 trailing plus,
\* 4 range, 5 exact, 6 lone number
RefStep(text) ==
    LET c == RefCleaned(text)
    IN  IF Strip(text) = <<>> THEN 1
        ELSE IF c # <<>> /\ Head(c) \in {">", "<"} THEN 2
        ELSE IF c # <<>> /\ c[Len(c)] = "+" THEN 3
        ELSE IF \E i \in DOMAIN c : c[i] = "-" THEN 4
        ELSE IF (c # <<>> /\ Head(c) = "=")
                \/ Contains(Lower(Strip(text)), <<"e","x","a","c","t">>) THEN 5
        ELSE 6

\* (v, v), (v, none), ... from the text of the required number, or the
\* invalid-term-expression error when it is no number
RefOne(numText, lo, hi, eps) ==
    LET v == ParseFloat(numText)
    IN  IF IsNone(v) THEN Invalid
        ELSE [ok |-> TRUE,
              lo |-> IF lo THEN Some(AddEps(Val(v), eps)) ELSE None,
              hi |-> IF hi THEN Some(AddEps(Val(v), eps)) ELSE None]

RefParse(text) ==
    LET c == RefCleaned(text)
        step == RefStep(text)
        sep == FirstIndex(c, "-")
        lo == ParseFloat(Take(c, sep - 1))
        hi == ParseFloat(Drop(c, sep))
    IN  CASE step = 1 -> Range(None, None)
          [] step = 2 ->
                IF StartsWith(c, <<">","=">>) THEN RefOne(Drop(c, 2), TRUE, FALSE, 0)
                ELSE IF StartsWith(c, <<"<","=">>) THEN RefOne(Drop(c, 2), FALSE, TRUE, 0)
                ELSE IF Head(c) = ">" THEN RefOne(Drop(c, 1), TRUE, FALSE, 1)
                ELSE RefOne(Drop(c, 1), FALSE, TRUE, 0 - 1)
          [] step = 3 -> RefOne(Take(c, Len(c) - 1), TRUE, FALSE, 0)
          [] step = 4 -> IF IsNone(lo) \/ IsNone(hi) THEN Invalid ELSE Range(lo, hi)
          [] step = 5 ->
                IF StartsWith(c, <<"=","=">>) THEN RefOne(Drop(c, 2), TRUE, TRUE, 0)
                ELSE IF StartsWith(c, <<"=">>) THEN RefOne(Drop(c, 1), TRUE, TRUE, 0)
                ELSE RefOne(Replace(Replace(c, <<"e","x","a","c","t","l","y">>, <<>>),
                                    <<"e","x","a","c","t">>, <<>>), TRUE, TRUE, 0)
          [] OTHER -> RefOne(c, TRUE, TRUE, 0)

\* C7: on every text of the bounded set, parse_term_expression returns what
\* the six-step reference returns, the invalid-term-expression error included.
C7_AgreesWithReference ==
    pc = "parsed" => Val(parsed) = RefParse(expr)

=============================================================================
